---------------------------- MODULE Spec2Model ----------------------------
(***************************************************************************)
(* A model of CTkScrollableFrameExt (src/ctk_scrollable_frame_ext.py): a   *)
(* scrollable container made of an outer panel (_parent_frame), a canvas   *)
(* (_parent_canvas) and an inner content panel (self) placed as a window   *)
(* item of the canvas.                                                     *)
(*                                                                         *)
(* Conventions.                                                            *)
(*  - A string that the code converts (content_anchor, lower-cased) is a   *)
(*    sequence of one-character strings, so that lower() is computed       *)
(*    character by character.  Strings that are only compared are TLA+     *)
(*    strings.                                                             *)
(*  - The relative positions 0.0, 0.5, 1.0 of _ANCHOR_POSITION are kept    *)
(*    doubled (0, 1, 2); (cw - fw) * rx is then ((cw - fw) * rx2) / 2,     *)
(*    exact in floating point for the sizes a window can have.             *)
(*  - A colour is <<kind, light, dark>>: a single colour name, a           *)
(*    light/dark pair, or "transparent".                                   *)
(*  - Every handler runs to completion (one action), except destroy(),     *)
(*    whose nested calls are kept on an explicit call stack.               *)
(***************************************************************************)
EXTENDS Integers, Sequences, FiniteSets, TLC

\* ------------------------------------------------------------------ bounds

\* Largest window side (pixels) in the anchoring specification.
MaxSide == 5
\* Largest window side (pixels) in the layout and scrolling specifications.
MaxDim == 2
\* Most <Configure> events waiting in the event queue.
MaxQueue == 1
\* Most external destroy requests (calls of destroy(), destructions of the
\* outer panel by its master) in one run.
MaxDestroyCalls == 3
\* Deepest call stack the model follows; the teardown never comes near it.
MaxDepth == 6
\* The viewport's side and the overflowing content's side (pixels) in the
\* scrolling specification.
ViewSide == 10
ContentSide == 16

\* --------------------------------------------------------------- helpers

Max(a, b) == IF a >= b THEN a ELSE b

Min(a, b) == IF a <= b THEN a ELSE b

\* Python's int() of the quotient n / d (d > 0): truncation toward zero.
TruncDiv(n, d) == IF n >= 0 THEN n \div d ELSE -((-n) \div d)

\* ------------------------------------------------- strings and anchors

UpperToLower ==
    ("N" :> "n") @@ ("W" :> "w") @@ ("E" :> "e") @@ ("S" :> "s") @@
    ("C" :> "c") @@ ("T" :> "t") @@ ("R" :> "r") @@ ("X" :> "x")

\* str.lower() on one character.
LowerChar(c) == IF c \in DOMAIN UpperToLower THEN UpperToLower[c] ELSE c

\* str.lower(): every character lower-cased, length and order kept.
Lower(s) == [i \in DOMAIN s |-> LowerChar(s[i])]

NW == <<"n", "w">>
N == <<"n">>
NE == <<"n", "e">>
W == <<"w">>
CENTER == <<"c", "e", "n", "t", "e", "r">>
E == <<"e">>
SW == <<"s", "w">>
S == <<"s">>
SE == <<"s", "e">>

\* _ANCHOR_POSITION, the relative positions doubled.
ANCHOR_POSITION ==
    (NW :> <<0, 0>>) @@ (N :> <<1, 0>>) @@ (NE :> <<2, 0>>) @@
    (W :> <<0, 1>>) @@ (CENTER :> <<1, 1>>) @@ (E :> <<2, 1>>) @@
    (SW :> <<0, 2>>) @@ (S :> <<1, 2>>) @@ (SE :> <<2, 2>>)

VALID_ANCHORS == DOMAIN ANCHOR_POSITION

VALID_ORIENTATIONS == {"vertical", "horizontal", "both"}

\* Anchors as a caller may write them: upper and mixed case.
CasedAnchors ==
    { <<"N", "W">>, <<"N", "w">>, <<"n", "W">>, <<"N">>, <<"N", "E">>,
      <<"W">>, <<"C", "E", "N", "T", "E", "R">>,
      <<"C", "e", "n", "t", "e", "r">>, <<"E">>, <<"S", "W">>, <<"S">>,
      <<"S", "E">>, <<"s", "E">> }

\* Strings that are no anchor in any letter case.
BadAnchors ==
    { <<>>, <<"x">>, <<"X">>, <<"n", "n">>, <<"e", "n">>, <<"w", "s">>,
      <<"c", "e", "n", "t", "r", "e">>, <<"N", "N", "E">> }

AnchorInputs == VALID_ANCHORS \cup CasedAnchors \cup BadAnchors

\* The anchors given to configure() while the windows are being resized: one
\* per relative position on each axis, one in mixed case, one that is none.
ResizeConfigureInputs == {NW, CENTER, SE, <<"s", "E">>, <<"e", "n">>}

OrientationInputs ==
    VALID_ORIENTATIONS \cup {"Vertical", "BOTH", "diagonal", ""}

\* --------------------------------------------------------------- colours

Transparent == <<"transparent", "", "">>

Single(c) == <<"single", c, c>>

Pair(l, d) == <<"pair", l, d>>

ColourNames == {"white", "black"}

Colours ==
    {Transparent} \cup {Single(c) : c \in ColourNames}
    \cup {Pair(l, d) : l \in ColourNames, d \in ColourNames}

\* CTkFrame's defaults: fg_color None takes the theme's pair, bg_color is
\* "transparent".
DefaultFg == Pair("white", "black")

DefaultBg == Transparent

Modes == {"Light", "Dark"}

Platforms == {"win32", "darwin", "linux"}

\* ------------------------------------------------------------------ state

VARIABLES
    phase,            \* "Unbuilt", "Built" or "Failed" (the constructor raised)
    args,             \* the constructor's arguments
    error,            \* the error the last call raised: "none" or "ValueError"
    orientation,      \* self._orientation
    content_anchor,   \* self._content_anchor
    cw, ch,           \* _parent_canvas.winfo_width(), winfo_height()
    fw, fh,           \* self.winfo_width(), self.winfo_height()
    itemW, itemH,     \* width, height forced on the canvas window item (0: none)
    pos,              \* coords of the canvas window item
    scrollregion,     \* the canvas's scrollregion (<<>>: never set)
    events,           \* <Configure> events raised and not yet handled
    platform,         \* sys.platform
    shift_pressed,    \* self._shift_pressed
    shiftHeld,        \* the shift keys physically held
    xoff, yoff,       \* the canvas's scroll offsets (pixels)
    lastScroll,       \* the last xview/yview scroll request: <<axis, units>>
    lastTarget,       \* history: event.widget of the last wheel event
    mode,             \* ctk.get_appearance_mode()
    fg_color,         \* _parent_frame.cget("fg_color")
    bg_color,         \* _parent_frame.cget("bg_color")
    canvasBg,         \* _parent_canvas.cget("bg")
    frameBg,          \* the inner panel's bg
    timerPending,     \* pending after(100, _schedule_theme_check) callbacks
    modeChanged,      \* history: the mode changed since the last theme check
    checks,           \* history: theme checks since the mode or a colour last
                      \* changed, counted up to 2
    resynced,         \* history: the last theme check called _sync_bg
    lateTicks,        \* history: theme-check callbacks fired after teardown began
    destroying,       \* self._destroying
    stack,            \* the call stack of a teardown in progress
    innerExists,      \* the inner panel's Tk window exists
    outerExists,      \* the outer panel's Tk window exists
    innerInCanvas,    \* the inner panel is registered as a child of the canvas
    outerInMaster,    \* the outer panel is registered as a child of its master
    appDestroyed,     \* the Tk application is gone: a Tk call raises TclError
    destroyCalls,     \* calls of destroy() from outside so far
    masterCalls,      \* destructions of the outer panel by its master so far
    baseDestroys,     \* executions of tkinter.Frame.destroy(self)
    outerDestroys     \* executions of self._parent_frame.destroy()

ctorVars == <<phase, args, error>>

layoutVars ==
    <<orientation, content_anchor, cw, ch, fw, fh, itemW, itemH, pos,
      scrollregion, events>>

scrollVars ==
    <<platform, shift_pressed, shiftHeld, xoff, yoff, lastScroll, lastTarget>>

themeVars ==
    <<mode, fg_color, bg_color, canvasBg, frameBg, timerPending, modeChanged,
      checks, resynced,
      lateTicks>>

lifeVars ==
    <<destroying, stack, innerExists, outerExists, innerInCanvas,
      outerInMaster, appDestroyed, destroyCalls, masterCalls, baseDestroys,
      outerDestroys>>

vars == <<ctorVars, layoutVars, scrollVars, themeVars, lifeVars>>

Unset == <<>>

\* An operation that raises nothing: error holds the last operation's outcome.
NoError == error' = "none" /\ UNCHANGED <<phase, args>>

Live == phase = "Built" /\ ~destroying

\* ------------------------------------------------------- theme: colours

\* A light/dark pair resolved for appearance mode m; a single colour as is.
ResolveMode(c, m) == IF c[1] = "pair" THEN (IF m = "Light" THEN c[2] ELSE c[3]) ELSE c[2]

\* _sync_bg's colour before it is resolved: fg_color, or bg_color when
\* fg_color is "transparent".
SyncSource(fg, bg) == IF fg = Transparent THEN bg ELSE fg

\* The colour _sync_bg gives the inner panel and the canvas.
SyncColour(fg, bg, m) == ResolveMode(SyncSource(fg, bg), m)

\* _check_theme_changed's expected_color: bg_color, or fg_color when bg_color
\* is "transparent", resolved for the mode.
ExpectedColour(fg, bg, m) == ResolveMode(IF bg = Transparent THEN fg ELSE bg, m)

\* Colour arguments for which _sync_bg has a colour to apply.
ColourArgs == {c \in Colours \X Colours : SyncSource(c[1], c[2]) # Transparent}

\* ------------------------------------------------------------ construction

\* The validations of __init__: the error raised, or "none".
InitErrorAnchorOnly(o, a) == IF Lower(a) \notin VALID_ANCHORS THEN "ValueError" ELSE "none"

InitError(o, a) ==
    IF o \notin VALID_ORIENTATIONS THEN "ValueError"
    ELSE IF Lower(a) \notin VALID_ANCHORS THEN "ValueError"
    ELSE "none"

\* The anchor __init__ stores.
StoredAnchor(a) == Lower(a)

Blank ==
    /\ error = "none"
    /\ orientation = "" /\ content_anchor = <<>>
    /\ cw = 1 /\ ch = 1 /\ fw = 1 /\ fh = 1
    /\ itemW = 0 /\ itemH = 0
    /\ pos = <<0, 0>> /\ scrollregion = Unset /\ events = <<>>
    /\ shift_pressed = FALSE /\ shiftHeld = {} /\ xoff = 0 /\ yoff = 0
    /\ lastScroll = <<>> /\ lastTarget = ""
    /\ fg_color = Transparent /\ bg_color = Transparent
    /\ canvasBg = "" /\ frameBg = "" /\ timerPending = 0
    /\ modeChanged = FALSE /\ checks = 0 /\ resynced = FALSE
    /\ lateTicks = 0
    /\ destroying = FALSE /\ stack = <<>>
    /\ innerExists = FALSE /\ outerExists = FALSE /\ innerInCanvas = FALSE
    /\ outerInMaster = FALSE /\ appDestroyed = FALSE
    /\ destroyCalls = 0 /\ masterCalls = 0
    /\ baseDestroys = 0 /\ outerDestroys = 0

\* Before the constructor runs: its arguments and the process's environment.
Unbuilt(orients, anchors, colours, modes, platforms) ==
    /\ phase = "Unbuilt"
    /\ args \in [orientation : orients, content_anchor : anchors,
                 colours : colours]
    /\ mode \in modes
    /\ platform \in platforms
    /\ Blank

\* __init__: validation, the widget tree, _sync_bg, the canvas window at
\* (0, 0), the bindings and the first _schedule_theme_check.
Construct ==
    /\ phase = "Unbuilt"
    /\ LET err == InitError(args.orientation, args.content_anchor)
           fg == args.colours[1]
           bg == args.colours[2]
       IN  IF err # "none"
           THEN /\ phase' = "Failed"
                /\ error' = err
                /\ UNCHANGED <<args, layoutVars, scrollVars, themeVars, lifeVars>>
           ELSE /\ phase' = "Built"
                /\ error' = "none"
                /\ orientation' = args.orientation
                /\ content_anchor' = StoredAnchor(args.content_anchor)
                /\ fg_color' = fg
                /\ bg_color' = bg
                /\ canvasBg' = SyncColour(fg, bg, mode)
                /\ frameBg' = SyncColour(fg, bg, mode)
                /\ timerPending' = 1
                /\ checks' = 1
                /\ resynced' =
                      (SyncColour(fg, bg, mode) # ExpectedColour(fg, bg, mode))
                /\ innerExists' = TRUE
                /\ outerExists' = TRUE
                /\ innerInCanvas' = TRUE
                /\ outerInMaster' = TRUE
                /\ UNCHANGED <<args, cw, ch, fw, fh, itemW, itemH, pos,
                               scrollregion, events, scrollVars, mode,
                               modeChanged, lateTicks, destroying, stack,
                               appDestroyed, destroyCalls, masterCalls,
                               baseDestroys, outerDestroys>>

\* ------------------------------------------------------------- anchoring

\* max(0, int((c - f) * r)) for the relative position r = r2 / 2.
AnchorOffsetUnclamped(c, f, r2) == TruncDiv((c - f) * r2, 2)

AnchorOffsetCeil(c, f, r2) == Max(0, ((c - f) * r2 + 1) \div 2)

AnchorOffset(c, f, r2) == Max(0, TruncDiv((c - f) * r2, 2))

\* The (x, y) _apply_content_anchor gives the canvas window item.
AnchorPosition(a, vw, vh, w, h) ==
    <<AnchorOffset(vw, w, ANCHOR_POSITION[a][1]),
      AnchorOffset(vh, h, ANCHOR_POSITION[a][2])>>

\* The scroll region _apply_content_anchor sets for position p.
ScrollRegionFor(p, vw, vh, w, h) ==
    <<0, 0, Max(w + p[1], vw), Max(h + p[2], vh)>>

\* _apply_content_anchor with anchor a: the sizes are read from the windows.
ApplyContentAnchor(a) ==
    /\ pos' = AnchorPosition(a, cw, ch, fw, fh)
    /\ scrollregion' =
          ScrollRegionFor(AnchorPosition(a, cw, ch, fw, fh), cw, ch, fw, fh)

CanvasEvent(w, h) == [widget |-> "canvas", width |-> w, height |-> h]

\* The inner panel's <Configure>; its handler reads nothing from the event, so
\* the event is kept without its fields.
FrameEvent == [widget |-> "frame", width |-> 0, height |-> 0]

\* The toolkit resizes the viewport (the canvas) and raises its <Configure>.
ViewportResize(w, h) ==
    /\ phase = "Built" /\ outerExists
    /\ Len(events) < MaxQueue
    /\ <<w, h>> # <<cw, ch>>
    /\ cw' = w /\ ch' = h
    /\ events' = Append(events, CanvasEvent(w, h))
    /\ NoError /\ UNCHANGED <<orientation, content_anchor, fw, fh, itemW,
                   itemH, pos, scrollregion, scrollVars, themeVars, lifeVars>>

\* The toolkit resizes the inner panel (its content changed, or the window
\* item was given a width or height) and raises its <Configure>.  A side the
\* window item forces takes the forced value.
ContentResize(w, h) ==
    /\ phase = "Built" /\ innerExists
    /\ Len(events) < MaxQueue
    /\ <<w, h>> # <<fw, fh>>
    /\ itemW # 0 => w = itemW
    /\ itemH # 0 => h = itemH
    /\ fw' = w /\ fh' = h
    /\ events' = Append(events, FrameEvent)
    /\ NoError /\ UNCHANGED <<orientation, content_anchor, cw, ch, itemW,
                   itemH, pos, scrollregion, scrollVars, themeVars, lifeVars>>

\* The first geometry pass after construction: both windows get their sizes
\* and both <Configure> events are raised.
FirstLayout(w, h, w2, h2) ==
    /\ phase = "Built" /\ innerExists /\ outerExists
    /\ events = <<>> /\ scrollregion = Unset
    /\ cw' = w /\ ch' = h /\ fw' = w2 /\ fh' = h2
    /\ events' = <<CanvasEvent(w, h), FrameEvent>>
    /\ NoError /\ UNCHANGED <<orientation, content_anchor, itemW, itemH, pos,
                   scrollregion, scrollVars, themeVars, lifeVars>>

\* _on_frame_configure, bound to the inner panel's <Configure>.
OnFrameConfigureNoApply ==
    /\ phase = "Built" /\ innerExists
    /\ events # <<>> /\ Head(events).widget = "frame"
    /\ events' = Tail(events)
    /\ UNCHANGED <<pos, scrollregion>>
    /\ NoError /\ UNCHANGED <<orientation, content_anchor, cw, ch, fw, fh,
                   itemW, itemH, scrollVars, themeVars, lifeVars>>

OnFrameConfigure ==
    /\ phase = "Built" /\ innerExists
    /\ events # <<>> /\ Head(events).widget = "frame"
    /\ events' = Tail(events)
    /\ ApplyContentAnchor(content_anchor)
    /\ NoError /\ UNCHANGED <<orientation, content_anchor, cw, ch, fw, fh,
                   itemW, itemH, scrollVars, themeVars, lifeVars>>

\* _on_canvas_configure, bound to the canvas's <Configure>.
OnCanvasConfigure ==
    /\ phase = "Built" /\ outerExists
    /\ events # <<>> /\ Head(events).widget = "canvas"
    /\ events' = Tail(events)
    /\ itemH' = IF orientation = "horizontal" THEN Head(events).height ELSE itemH
    /\ itemW' = IF orientation = "vertical" THEN Head(events).width ELSE itemW
    /\ ApplyContentAnchor(content_anchor)
    /\ NoError /\ UNCHANGED <<orientation, content_anchor, cw, ch, fw, fh,
                   scrollVars, themeVars, lifeVars>>

\* configure(content_anchor=a).
ConfigureContentAnchorNoApply(a) ==
    /\ Live /\ stack = <<>>
    /\ IF Lower(a) \notin VALID_ANCHORS
       THEN /\ error' = "ValueError"
            /\ UNCHANGED <<content_anchor, pos, scrollregion>>
       ELSE /\ error' = "none"
            /\ content_anchor' = Lower(a)
            /\ UNCHANGED <<pos, scrollregion>>
    /\ UNCHANGED <<phase, args, orientation, cw, ch, fw, fh, itemW, itemH,
                   events, scrollVars, themeVars, lifeVars>>

ConfigureContentAnchor(a) ==
    /\ Live /\ stack = <<>>
    /\ IF Lower(a) \notin VALID_ANCHORS
       THEN /\ error' = "ValueError"
            /\ UNCHANGED <<content_anchor, pos, scrollregion>>
       ELSE /\ error' = "none"
            /\ content_anchor' = Lower(a)
            /\ ApplyContentAnchor(Lower(a))
    /\ UNCHANGED <<phase, args, orientation, cw, ch, fw, fh, itemW, itemH,
                   events, scrollVars, themeVars, lifeVars>>

\* cget(attribute_name) for the attributes the widget keeps itself.
Cget(attribute_name) ==
    CASE attribute_name = "content_anchor" -> content_anchor
      [] attribute_name = "orientation" -> orientation

\* ---------------------------------------------- specification: construction

InitCtor ==
    Unbuilt(OrientationInputs, AnchorInputs, {<<DefaultFg, DefaultBg>>},
            {"Light"}, {"linux"})

NextCtor == Construct

SpecCtor == InitCtor /\ [][NextCtor]_vars

\* C4: the constructor raises ValueError exactly when orientation is not one
\* of vertical, horizontal, both, or the lower-cased content_anchor is not
\* one of the nine anchors; in every other case the widget is Live and
\* stores the lower-cased anchor (and the orientation as given).
C4_ConstructionValidates ==
    LET bad == \/ args.orientation \notin {"vertical", "horizontal", "both"}
               \/ Lower(args.content_anchor) \notin
                    {NW, N, NE, W, CENTER, E, SW, S, SE}
    IN  /\ phase \in {"Unbuilt", "Built", "Failed"}
        /\ phase = "Failed" => bad /\ error = "ValueError"
        /\ phase = "Built" =>
              /\ ~bad
              /\ error = "none"
              /\ ~destroying
              /\ content_anchor = Lower(args.content_anchor)
              /\ content_anchor \in VALID_ANCHORS
              /\ orientation = args.orientation

\* A widget built from an anchor written in mixed case.
C4_Witness ==
    /\ phase = "Built"
    /\ args.content_anchor = <<"s", "E">>
    /\ content_anchor = SE

\* ------------------------------------------------ specification: anchoring

Sides == 1..MaxSide

InitAnchor ==
    Unbuilt(VALID_ORIENTATIONS, VALID_ANCHORS, {<<DefaultFg, DefaultBg>>},
            {"Light"}, {"linux"})

NextAnchor ==
    \/ Construct
    \/ \E w, h, w2, h2 \in Sides : FirstLayout(w, h, w2, h2)
    \/ OnCanvasConfigure
    \/ OnFrameConfigure

SpecAnchor == InitAnchor /\ [][NextAnchor]_vars

\* _apply_content_anchor has run on the sizes of the windows.
Applied == phase = "Built" /\ scrollregion # Unset

\* Python's round() of n / 2 for n >= 0: to nearest, a tie to the even one.
RoundHalfEven(n) ==
    LET q == n \div 2
    IN  IF n % 2 = 0 THEN q ELSE IF q % 2 = 0 THEN q ELSE q + 1

\* n / 2 for n >= 0 rounded to nearest, a tie upward.
RoundHalfUp(n) == (n + 1) \div 2

\* C1 as stated: with content smaller than the viewport on both axes, the
\* position is (round((cw-fw)*rx), round((ch-fh)*ry)), whichever way round
\* breaks a tie.
C1_PositionIsRounded ==
    Applied /\ fw < cw /\ fh < ch =>
        LET nx == (cw - fw) * ANCHOR_POSITION[content_anchor][1]
            ny == (ch - fh) * ANCHOR_POSITION[content_anchor][2]
        IN  /\ pos[1] \in {RoundHalfEven(nx), RoundHalfUp(nx)}
            /\ pos[2] \in {RoundHalfEven(ny), RoundHalfUp(ny)}

\* C1 as amended: with content smaller than the viewport on both axes, the
\* position is (floor((cw-fw)*rx), floor((ch-fh)*ry)): int() truncates, it
\* does not round; the three examples of the claim hold as stated.
C1_PositionIsTruncated ==
    /\ Applied /\ fw < cw /\ fh < ch =>
          /\ pos[1] = ((cw - fw) * ANCHOR_POSITION[content_anchor][1]) \div 2
          /\ pos[2] = ((ch - fh) * ANCHOR_POSITION[content_anchor][2]) \div 2
    /\ AnchorPosition(SE, 400, 300, 100, 50) = <<300, 250>>
    /\ AnchorPosition(CENTER, 400, 300, 100, 50) = <<150, 125>>
    /\ AnchorPosition(NW, 400, 300, 100, 50) = <<0, 0>>

\* Centred content with an odd margin on both axes: 3 / 2 and 1 / 2.
C1_Witness ==
    /\ Applied /\ events = <<>>
    /\ content_anchor = CENTER
    /\ cw - fw = 3 /\ ch - fh = 1
    /\ pos = <<1, 0>>

\* C2: on an axis where the content is at least as large as the viewport the
\* offset is 0, whatever the anchor and the other axis; no offset is negative.
C2_OverflowClampsToZero ==
    Applied =>
        /\ fw >= cw => pos[1] = 0
        /\ fh >= ch => pos[2] = 0
        /\ pos[1] >= 0
        /\ pos[2] >= 0

\* Content wider than the viewport and shorter than it, anchored south-east:
\* x is clamped, y is not.
C2_Witness ==
    /\ Applied /\ events = <<>>
    /\ content_anchor = SE
    /\ fw > cw + 1 /\ fh < ch
    /\ pos[1] = 0 /\ pos[2] = ch - fh

\* --------------------------------------------------- specification: layout

Dims == 1..MaxDim

InitLayout ==
    Unbuilt(VALID_ORIENTATIONS, {NW}, {<<DefaultFg, DefaultBg>>},
            {"Light"}, {"linux"})

NextLayout ==
    \/ Construct
    \/ \E w, h \in Dims : ViewportResize(w, h)
    \/ \E w, h \in Dims : ContentResize(w, h)
    \/ OnCanvasConfigure
    \/ OnFrameConfigure
    \/ \E a \in ResizeConfigureInputs : ConfigureContentAnchor(a)

SpecLayout == InitLayout /\ [][NextLayout]_vars

\* C3: once every <Configure> event raised so far has been handled, the
\* scroll region is (0, 0, W, H) with W >= max(fw + x, cw) and
\* H >= max(fh + y, ch) for the current position and sizes.  The region is
\* unset only in a widget that has seen no event and no reconfiguration.
C3_ScrollRegionCoversViewportAndContent ==
    phase = "Built" /\ events = <<>> =>
        IF scrollregion = Unset
        THEN cw = 1 /\ ch = 1 /\ fw = 1 /\ fh = 1 /\ pos = <<0, 0>>
        ELSE /\ Len(scrollregion) = 4
             /\ scrollregion[1] = 0
             /\ scrollregion[2] = 0
             /\ scrollregion[3] >= Max(fw + pos[1], cw)
             /\ scrollregion[4] >= Max(fh + pos[2], ch)

\* After resizes: content wider and shorter than the viewport, pushed down by
\* its anchor, and a region as wide as the content and as high as the
\* viewport.
C3_Witness ==
    /\ phase = "Built" /\ events = <<>>
    /\ fw > cw /\ fh < ch
    /\ pos[1] = 0 /\ pos[2] > 0
    /\ scrollregion = <<0, 0, fw, ch>>

\* ------------------------------------------ specification: reconfiguration

InitConfigure ==
    Unbuilt(VALID_ORIENTATIONS, {NW}, {<<DefaultFg, DefaultBg>>},
            {"Light"}, {"linux"})

NextConfigure ==
    \/ Construct
    \/ \E w, h, w2, h2 \in Dims : FirstLayout(w, h, w2, h2)
    \/ OnCanvasConfigure
    \/ OnFrameConfigure
    \/ \E a \in AnchorInputs : ConfigureContentAnchor(a)

SpecConfigure == InitConfigure /\ [][NextConfigure]_vars

\* C6: on a Live widget configure(content_anchor=a) with a valid anchor in
\* any letter case stores the lower-cased anchor, which cget returns, moves
\* the content to the anchored position for the current sizes and sets the
\* scroll region from it, in the one call, the widget staying Live and the
\* windows keeping their sizes.
C6_ConfigureAnchorRepositions ==
    [][\A a \in AnchorInputs :
          (Lower(a) \in {NW, N, NE, W, CENTER, E, SW, S, SE}
             /\ content_anchor' = Lower(a)
             /\ ConfigureContentAnchor(a)) =>
              LET r == ANCHOR_POSITION[Lower(a)]
                  x == IF fw < cw THEN ((cw - fw) * r[1]) \div 2 ELSE 0
                  y == IF fh < ch THEN ((ch - fh) * r[2]) \div 2 ELSE 0
              IN  /\ Cget("content_anchor")' = Lower(a)
                  /\ pos' = <<x, y>>
                  /\ scrollregion' = <<0, 0, Max(fw + x, cw), Max(fh + y, ch)>>
                  /\ error' = "none"
                  /\ phase' = "Built" /\ ~destroying'
                  /\ <<cw, ch, fw, fh>>' = <<cw, ch, fw, fh>>
                  /\ innerExists' /\ outerExists']_vars

\* A widget built with anchor nw whose content, smaller than the viewport,
\* now sits at the south-east corner.
C6_Witness ==
    /\ Live /\ events = <<>>
    /\ args.content_anchor = NW
    /\ Cget("content_anchor") = SE
    /\ fw < cw /\ fh < ch
    /\ pos = <<cw - fw, ch - fh>>

\* ------------------------------------------------- theme synchronisation

\* _sync_bg: the inner panel and the canvas take the outer panel's colour.
SyncBg ==
    /\ canvasBg' = SyncColour(fg_color, bg_color, mode)
    /\ frameBg' = SyncColour(fg_color, bg_color, mode)

\* _check_theme_changed: _sync_bg when the canvas's bg differs from the
\* expected colour.
CheckThemeChanged ==
    IF canvasBg # ExpectedColour(fg_color, bg_color, mode)
    THEN SyncBg
    ELSE UNCHANGED <<canvasBg, frameBg>>

\* ctk.set_appearance_mode(m): the toolkit restyles its own widgets and tells
\* this one nothing.
SetAppearanceMode(m) ==
    /\ phase = "Built" /\ stack = <<>>
    /\ m # mode
    /\ mode' = m
    /\ modeChanged' = TRUE
    /\ checks' = 0
    /\ UNCHANGED resynced
    /\ NoError
    /\ UNCHANGED <<layoutVars, scrollVars, fg_color, bg_color, canvasBg,
                   frameBg, timerPending, lateTicks, lifeVars>>

\* The after(100, ...) callback: _schedule_theme_check.
ThemeTickAlwaysRearm ==
    /\ phase = "Built" /\ stack = <<>>
    /\ timerPending > 0
    /\ CheckThemeChanged
    /\ modeChanged' = FALSE
    /\ checks' = Min(checks + 1, 2)
    /\ resynced' = (canvasBg # ExpectedColour(fg_color, bg_color, mode))
    /\ lateTicks' = IF destroying THEN lateTicks + 1 ELSE lateTicks
    /\ UNCHANGED timerPending
    /\ NoError
    /\ UNCHANGED <<layoutVars, scrollVars, mode, fg_color, bg_color, lifeVars>>

ThemeTick ==
    /\ phase = "Built" /\ stack = <<>>
    /\ timerPending > 0
    /\ IF destroying
       THEN \* the flag is set: nothing is read or written, no re-arm
            /\ timerPending' = timerPending - 1
            /\ lateTicks' = lateTicks + 1
            /\ UNCHANGED <<canvasBg, frameBg, modeChanged, checks, resynced>>
       ELSE IF appDestroyed
       THEN \* cget on a destroyed canvas raises TclError: caught, no re-arm
            /\ timerPending' = timerPending - 1
            /\ UNCHANGED <<canvasBg, frameBg, modeChanged, checks, resynced, lateTicks>>
       ELSE /\ CheckThemeChanged
            /\ modeChanged' = FALSE
            /\ checks' = Min(checks + 1, 2)
            /\ resynced' =
                  (canvasBg # ExpectedColour(fg_color, bg_color, mode))
            /\ timerPending' = (timerPending - 1) + 1
            /\ UNCHANGED lateTicks
    /\ NoError
    /\ UNCHANGED <<layoutVars, scrollVars, mode, fg_color, bg_color, lifeVars>>

\* The toolkit drops a pending callback of a widget that is gone.
TimerDropped ==
    /\ phase = "Built" /\ stack = <<>>
    /\ timerPending > 0 /\ ~innerExists
    /\ timerPending' = 0
    /\ NoError
    /\ UNCHANGED <<layoutVars, scrollVars, mode, fg_color, bg_color, canvasBg,
                   frameBg, modeChanged, checks, resynced, lateTicks, lifeVars>>

\* configure(fg_color=c): the outer panel is restyled, then _sync_bg.
ConfigureFgColor(c) ==
    /\ Live /\ stack = <<>> /\ ~appDestroyed
    /\ SyncSource(c, bg_color) # Transparent
    /\ fg_color' = c
    /\ canvasBg' = SyncColour(c, bg_color, mode)
    /\ frameBg' = SyncColour(c, bg_color, mode)
    /\ NoError
    /\ UNCHANGED <<layoutVars, scrollVars, mode, bg_color, timerPending,
                   modeChanged, lateTicks, lifeVars>>
    /\ checks' = 0
    /\ UNCHANGED resynced

\* configure(bg_color=c): an option the widget does not know, forwarded to
\* the outer panel.
ConfigureBgColor(c) ==
    /\ Live /\ stack = <<>> /\ ~appDestroyed
    /\ SyncSource(fg_color, c) # Transparent
    /\ bg_color' = c
    /\ NoError
    /\ UNCHANGED <<layoutVars, scrollVars, mode, fg_color, canvasBg, frameBg,
                   timerPending, modeChanged, lateTicks, lifeVars>>
    /\ checks' = 0
    /\ UNCHANGED resynced

\* ---------------------------------------------------------------- teardown
\* The call stack holds one frame per call in progress, the innermost last:
\*   "destroy:entry"  destroy() at its flag check
\*   "destroy:inner"  destroy() before tkinter.Frame.destroy(self)
\*   "destroy:outer"  destroy() before self._parent_frame.destroy()
\*   "destroy:wait"   destroy() inside self._parent_frame.destroy()
\*   "outer:walk"     the outer panel's destroy, walking to the canvas and
\*                    the canvas's children
\*   "outer:wait"     the outer panel's destroy inside the inner panel's
\*                    destroy()
\*   "outer:finish"   the outer panel's destroy, destroying the Tk windows

Top == stack[Len(stack)]

Pop == SubSeq(stack, 1, Len(stack) - 1)

Replace(f) == [stack EXCEPT ![Len(stack)] = f]

At(f) == phase = "Built" /\ stack # <<>> /\ Top = f

\* The application calls destroy() on the widget.
CallDestroy ==
    /\ phase = "Built" /\ stack = <<>>
    /\ destroyCalls + masterCalls < MaxDestroyCalls
    /\ destroyCalls' = destroyCalls + 1
    /\ stack' = <<"destroy:entry">>
    /\ NoError
    /\ UNCHANGED <<layoutVars, scrollVars, themeVars, destroying, innerExists,
                   outerExists, innerInCanvas, outerInMaster, appDestroyed,
                   masterCalls, baseDestroys, outerDestroys>>

\* The outer panel's master destroys it (a parent's cleanup).
MasterDestroysOuter ==
    /\ phase = "Built" /\ stack = <<>>
    /\ outerInMaster
    /\ destroyCalls + masterCalls < MaxDestroyCalls
    /\ masterCalls' = masterCalls + 1
    /\ stack' = <<"outer:walk">>
    /\ NoError
    /\ UNCHANGED <<layoutVars, scrollVars, themeVars, destroying, innerExists,
                   outerExists, innerInCanvas, outerInMaster, appDestroyed,
                   destroyCalls, baseDestroys, outerDestroys>>

\* The Tk application is destroyed by the toolkit itself: every window is
\* gone and pending callbacks are dropped; the Python objects remain.
ApplicationDestroyed ==
    /\ phase = "Built" /\ stack = <<>>
    /\ ~appDestroyed
    /\ appDestroyed' = TRUE
    /\ innerExists' = FALSE
    /\ outerExists' = FALSE
    /\ timerPending' = 0
    /\ events' = <<>>
    /\ NoError
    /\ UNCHANGED <<orientation, content_anchor, cw, ch, fw, fh, itemW, itemH,
                   pos, scrollregion, scrollVars, mode, fg_color, bg_color,
                   canvasBg, frameBg, modeChanged, checks, resynced, lateTicks, destroying,
                   stack, innerInCanvas, outerInMaster, destroyCalls,
                   masterCalls, baseDestroys, outerDestroys>>

\* destroy(), lines 249-251: return if the flag is set, else set it.
DestroyEntryNoCheck ==
    /\ At("destroy:entry")
    /\ destroying' = TRUE
    /\ stack' = Replace("destroy:inner")
    /\ NoError
    /\ UNCHANGED <<layoutVars, scrollVars, themeVars, innerExists,
                   outerExists, innerInCanvas, outerInMaster, appDestroyed,
                   destroyCalls, masterCalls, baseDestroys, outerDestroys>>

DestroyEntryNoSet ==
    /\ At("destroy:entry")
    /\ IF destroying
       THEN stack' = Pop
       ELSE stack' = Replace("destroy:inner")
    /\ NoError
    /\ UNCHANGED <<layoutVars, scrollVars, themeVars, destroying, innerExists,
                   outerExists, innerInCanvas, outerInMaster, appDestroyed,
                   destroyCalls, masterCalls, baseDestroys, outerDestroys>>

DestroyEntry ==
    /\ At("destroy:entry")
    /\ IF destroying
       THEN /\ stack' = Pop
            /\ UNCHANGED destroying
       ELSE /\ destroying' = TRUE
            /\ stack' = Replace("destroy:inner")
    /\ NoError
    /\ UNCHANGED <<layoutVars, scrollVars, themeVars, innerExists,
                   outerExists, innerInCanvas, outerInMaster, appDestroyed,
                   destroyCalls, masterCalls, baseDestroys, outerDestroys>>

\* destroy(), lines 254-257: tkinter.Frame.destroy(self).  It destroys the
\* inner panel's window and takes the panel out of the canvas's children;
\* when the application is gone it raises TclError before that, which is
\* swallowed.
DestroyInner ==
    /\ At("destroy:inner")
    /\ baseDestroys' = baseDestroys + 1
    /\ IF appDestroyed
       THEN UNCHANGED <<innerExists, innerInCanvas>>
       ELSE innerExists' = FALSE /\ innerInCanvas' = FALSE
    /\ stack' = Replace("destroy:outer")
    /\ NoError
    /\ UNCHANGED <<layoutVars, scrollVars, themeVars, destroying, outerExists,
                   outerInMaster, appDestroyed, destroyCalls, masterCalls,
                   outerDestroys>>

\* destroy(), line 261: the call of self._parent_frame.destroy().
DestroyOuter ==
    /\ At("destroy:outer")
    /\ Len(stack) < MaxDepth
    /\ outerDestroys' = outerDestroys + 1
    /\ stack' = Append(Replace("destroy:wait"), "outer:walk")
    /\ NoError
    /\ UNCHANGED <<layoutVars, scrollVars, themeVars, destroying, innerExists,
                   outerExists, innerInCanvas, outerInMaster, appDestroyed,
                   destroyCalls, masterCalls, baseDestroys>>

\* destroy(), lines 261-263: self._parent_frame.destroy() has returned, or
\* raised TclError, which is swallowed; destroy() returns.
DestroyReturn ==
    /\ At("destroy:wait")
    /\ stack' = Pop
    /\ NoError
    /\ UNCHANGED <<layoutVars, scrollVars, themeVars, destroying, innerExists,
                   outerExists, innerInCanvas, outerInMaster, appDestroyed,
                   destroyCalls, masterCalls, baseDestroys, outerDestroys>>

\* The outer panel's destroy walks its children: the canvas, and the canvas's
\* child, the inner panel, whose destroy() is the widget's own.
OuterWalk ==
    /\ At("outer:walk")
    /\ IF innerInCanvas
       THEN /\ Len(stack) < MaxDepth
            /\ stack' = Append(Replace("outer:wait"), "destroy:entry")
       ELSE stack' = Replace("outer:finish")
    /\ NoError
    /\ UNCHANGED <<layoutVars, scrollVars, themeVars, destroying, innerExists,
                   outerExists, innerInCanvas, outerInMaster, appDestroyed,
                   destroyCalls, masterCalls, baseDestroys, outerDestroys>>

\* The inner panel's destroy() has returned to the walk.
OuterResume ==
    /\ At("outer:wait")
    /\ stack' = Replace("outer:finish")
    /\ NoError
    /\ UNCHANGED <<layoutVars, scrollVars, themeVars, destroying, innerExists,
                   outerExists, innerInCanvas, outerInMaster, appDestroyed,
                   destroyCalls, masterCalls, baseDestroys, outerDestroys>>

\* The outer panel's destroy destroys the windows of the canvas, scrollbars,
\* label and panel and leaves the master's children; when the application is
\* gone the Tk call raises TclError, which destroy() swallows and a master
\* sees.
OuterFinish ==
    /\ At("outer:finish")
    /\ stack' = Pop
    /\ IF appDestroyed
       THEN /\ error' = IF Len(stack) = 1 THEN "TclError" ELSE "none"
            /\ UNCHANGED <<outerExists, outerInMaster, innerExists,
                           timerPending, events>>
       ELSE /\ error' = "none"
            /\ outerExists' = FALSE
            /\ outerInMaster' = FALSE
            /\ innerExists' = FALSE
            /\ events' = <<>>
            /\ UNCHANGED timerPending
    /\ UNCHANGED <<phase, args, orientation, content_anchor, cw, ch, fw, fh,
                   itemW, itemH, pos, scrollregion, scrollVars, mode,
                   fg_color, bg_color, canvasBg, frameBg, modeChanged, checks, resynced,
                   lateTicks, destroying, innerInCanvas, appDestroyed,
                   destroyCalls, masterCalls, baseDestroys, outerDestroys>>

\* One step of a teardown in progress.
TeardownStep ==
    \/ DestroyEntry
    \/ DestroyInner
    \/ DestroyOuter
    \/ DestroyReturn
    \/ OuterWalk
    \/ OuterResume
    \/ OuterFinish

\* ---------------------------------------------------- specification: theme

InitTheme ==
    Unbuilt({"vertical"}, {NW}, ColourArgs, Modes, {"linux"})

NextTheme ==
    \/ Construct
    \/ \E m \in Modes : SetAppearanceMode(m)
    \/ ThemeTick
    \/ \E c \in Colours : ConfigureFgColor(c)
    \/ \E c \in Colours : ConfigureBgColor(c)

SpecTheme == InitTheme /\ [][NextTheme]_vars

\* C14: the colour synchronisation is a fixed point of the theme check: a
\* theme check on a Live widget that follows another one, with the appearance
\* mode and the outer panel's fg_color and bg_color unchanged in between,
\* finds the canvas's background equal to its expected colour (bg_color, or
\* fg_color under a transparent bg_color, resolved for the mode) and so
\* re-syncs nothing.
C14_ThemeCheckFixedPoint ==
    (Live /\ ~appDestroyed /\ checks = 2) =>
        LET expected == IF bg_color = Transparent THEN fg_color ELSE bg_color
        IN  /\ ~resynced
            /\ canvasBg = IF expected[1] = "pair"
                           THEN (IF mode = "Light" THEN expected[2]
                                 ELSE expected[3])
                           ELSE expected[2]

\* ------------------------------------------------ specification: lifecycle

InitLife ==
    Unbuilt({"vertical"}, {NW}, {<<DefaultFg, DefaultBg>>}, Modes, {"linux"})

NextLife ==
    \/ Construct
    \/ \E m \in Modes : SetAppearanceMode(m)
    \/ ThemeTick
    \/ TimerDropped
    \/ CallDestroy
    \/ MasterDestroysOuter
    \/ ApplicationDestroyed
    \/ TeardownStep

SpecLife == InitLife /\ [][NextLife]_vars

\* A call in progress runs on: the event loop takes no other event before
\* the handler returns.
SpecLifeFair == SpecLife /\ WF_vars(TeardownStep)

\* C5: destroy() called again and again raises nothing and destroys nothing
\* twice: the flag is set once and never cleared, tkinter.Frame.destroy(self)
\* and self._parent_frame.destroy() each run once, in the first call, and a
\* call that finds the flag set returns having changed nothing.
C5_DestroyIsIdempotent ==
    /\ [](/\ baseDestroys <= 1
          /\ outerDestroys <= 1
          /\ (phase = "Built" /\ stack = <<>> /\ destroyCalls >= 1) =>
                destroying /\ baseDestroys = 1 /\ outerDestroys = 1)
    /\ [][destroying => destroying']_vars
    /\ [][(At("destroy:entry") /\ destroying) =>
            /\ stack' = Pop
            /\ UNCHANGED <<layoutVars, scrollVars, themeVars, destroying,
                           innerExists, outerExists, innerInCanvas,
                           outerInMaster, appDestroyed, baseDestroys,
                           outerDestroys>>]_vars
    /\ [][(stack # <<>> /\ stack' = <<>> /\ stack[1] # "outer:wait"
             /\ stack[1] # "outer:walk" /\ stack[1] # "outer:finish") =>
            error' = "none"]_vars

\* destroy() has been called twice and has returned twice; the panels were
\* destroyed once each.
C5_Witness ==
    /\ phase = "Built" /\ stack = <<>>
    /\ destroyCalls >= 2 /\ masterCalls = 0 /\ ~appDestroyed
    /\ destroying
    /\ baseDestroys = 1 /\ outerDestroys = 1
    /\ ~innerExists /\ ~outerExists

\* C8: on a Live widget, the theme check that follows a change of the
\* appearance mode leaves the canvas's and the inner panel's background equal
\* to the outer panel's colour (fg_color, or bg_color under a transparent
\* fg_color) resolved for the mode now active.
C8_ThemeCheckFollowsMode ==
    [][(Live /\ ~appDestroyed /\ modeChanged /\ ThemeTick) =>
          LET panel == IF fg_color = Transparent THEN bg_color ELSE fg_color
              now == IF panel[1] = "pair"
                     THEN (IF mode = "Light" THEN panel[2] ELSE panel[3])
                     ELSE panel[2]
          IN  canvasBg' = now /\ frameBg' = now]_vars

\* C9: the theme check re-arms its timer only while the widget is Live.  A
\* callback that fires once teardown has begun changes no colour and leaves
\* no timer pending; at most one callback fires after teardown began, and
\* from then on no timer is pending.
C9_TimerStopsAfterTeardown ==
    /\ [](/\ timerPending <= 1
          /\ lateTicks <= 1
          /\ lateTicks = 1 => timerPending = 0)
    /\ [][(destroying /\ ThemeTick) =>
            /\ timerPending' = 0
            /\ UNCHANGED <<canvasBg, frameBg, fg_color, bg_color>>]_vars
    /\ [][(destroying /\ timerPending = 0) => timerPending' = 0]_vars
    /\ [][timerPending' > timerPending => phase = "Unbuilt"]_vars
    /\ [][(ThemeTick /\ timerPending' > 0) => Live]_vars

\* The pending callback fired after destroy() and found the flag set.
C9_Witness ==
    /\ destroying /\ stack = <<>> /\ ~appDestroyed
    /\ lateTicks = 1
    /\ timerPending = 0

\* C10: a teardown that starts at the outer panel ends: the call stack never
\* grows past four frames (outer panel, destroy(), outer panel again,
\* destroy() again, stopped by the flag), the body of destroy() runs at most
\* once, every teardown in progress returns, and it leaves the widget
\* Destroying with both panels destroyed.
C10_TeardownTerminates ==
    /\ [](/\ Len(stack) <= 4
          /\ Len(stack) < MaxDepth
          /\ baseDestroys <= 1
          /\ outerDestroys <= 1
          /\ (phase = "Built" /\ stack = <<>> /\ masterCalls >= 1) =>
                /\ destroying
                /\ baseDestroys = 1 /\ outerDestroys = 1
                /\ ~innerExists /\ ~outerExists)
    /\ ((stack # <<>>) ~> (stack = <<>>))

\* The deepest point of the chain: the outer panel's destroy, destroy(), the
\* outer panel's destroy again, and destroy() again, about to find the flag.
C10_Witness ==
    /\ stack = <<"outer:wait", "destroy:wait", "outer:wait", "destroy:entry">>
    /\ destroying
    /\ baseDestroys = 1 /\ outerDestroys = 1

\* -------------------------------------------------------------- scrolling

\* The widgets a wheel event can name as its target: this widget's canvas,
\* the inner panel, a widget placed in it, the outer panel, the root window
\* and the same four of another scrollable container.
Widgets ==
    {"canvas", "inner", "child", "outer", "root",
     "other_canvas", "other_inner", "other_child", "other_outer"}

\* widget.master; the root window's master is None.
Master ==
    ("child" :> "inner") @@ ("inner" :> "canvas") @@ ("canvas" :> "outer") @@
    ("outer" :> "root") @@ ("other_child" :> "other_inner") @@
    ("other_inner" :> "other_canvas") @@ ("other_canvas" :> "other_outer") @@
    ("other_outer" :> "root") @@ ("root" :> "None")

\* _is_child_of_canvas: None has no master, the AttributeError gives False.
RECURSIVE IsChildOfAnyCanvas(_)
IsChildOfAnyCanvas(widget) ==
    IF widget \in {"canvas", "other_canvas"} THEN TRUE
    ELSE IF widget = "None" THEN FALSE
    ELSE IsChildOfAnyCanvas(Master[widget])

RECURSIVE IsChildOfCanvas(_)
IsChildOfCanvas(widget) ==
    IF widget = "canvas" THEN TRUE
    ELSE IF widget = "None" THEN FALSE
    ELSE IsChildOfCanvas(Master[widget])

WheelEvents ==
    [widget : Widgets, delta : {-120, 120, -3, 1}, num : {4, 5}]

\* The step _mouse_wheel_all computes, in units.
WheelDeltaFloor(p, event) ==
    IF p = "win32" THEN -(event.delta \div 6)
    ELSE IF p = "darwin" THEN -event.delta
    ELSE IF event.num = 4 THEN -2 ELSE 2

WheelDelta(p, event) ==
    IF p = "win32" THEN -TruncDiv(event.delta, 6)
    ELSE IF p = "darwin" THEN -event.delta
    ELSE IF event.num = 4 THEN -2 ELSE 2

\* The axis _mouse_wheel_all turns to.
WheelAxis(o, shift) ==
    IF o = "both" THEN (IF shift THEN "x" ELSE "y")
    ELSE IF o = "vertical" THEN "y"
    ELSE "x"

\* The canvas's xview() / yview() is (0.0, 1.0): the scroll region does not
\* exceed the viewport on that axis (an unset scroll region never does).
FullyVisible(axis) ==
    \/ scrollregion = Unset
    \/ axis = "x" /\ scrollregion[3] <= cw
    \/ axis = "y" /\ scrollregion[4] <= ch

\* Pixels in n units: the increments _set_scroll_increments configures, or a
\* tenth of the viewport where it configures none.
UnitPixels(p, axis, n, view) ==
    IF p = "win32" THEN n
    ELSE IF p = "darwin" THEN (IF axis = "x" THEN 4 * n ELSE 8 * n)
    ELSE TruncDiv(n * view, 10)

\* The canvas keeps the view inside the scroll region.
Confined(off, view, region) == Max(0, Min(off, region - view))

\* _mouse_wheel_all, bound to <MouseWheel>, <Button-4> and <Button-5> of
\* every widget of the application.
MouseWheelAll(event) ==
    /\ phase = "Built" /\ innerExists /\ outerExists /\ stack = <<>>
    /\ lastTarget' = event.widget
    /\ LET axis == WheelAxis(orientation, shift_pressed)
           delta == WheelDelta(platform, event)
       IN  IF ~IsChildOfCanvas(event.widget) \/ FullyVisible(axis)
           THEN UNCHANGED <<xoff, yoff, lastScroll>>
           ELSE /\ lastScroll' = <<axis, delta>>
                /\ xoff' = IF axis = "x"
                           THEN Confined(xoff + UnitPixels(platform, "x", delta, cw),
                                         cw, scrollregion[3])
                           ELSE xoff
                /\ yoff' = IF axis = "y"
                           THEN Confined(yoff + UnitPixels(platform, "y", delta, ch),
                                         ch, scrollregion[4])
                           ELSE yoff
    /\ NoError
    /\ UNCHANGED <<layoutVars, platform, shift_pressed, shiftHeld, themeVars,
                   lifeVars>>

ShiftKeys == {"Shift_L", "Shift_R"}

\* _keyboard_shift_press_all, bound to <KeyPress-Shift_L> and
\* <KeyPress-Shift_R>: the user presses a shift key.
KeyboardShiftPressAll(key) ==
    /\ phase = "Built" /\ innerExists /\ stack = <<>>
    /\ key \notin shiftHeld
    /\ shiftHeld' = shiftHeld \cup {key}
    /\ shift_pressed' = TRUE
    /\ NoError
    /\ UNCHANGED <<layoutVars, platform, xoff, yoff, lastScroll, lastTarget,
                   themeVars, lifeVars>>

\* _keyboard_shift_release_all, bound to <KeyRelease-Shift_L> and
\* <KeyRelease-Shift_R>: the user releases a shift key.
KeyboardShiftReleaseAll(key) ==
    /\ phase = "Built" /\ innerExists /\ stack = <<>>
    /\ key \in shiftHeld
    /\ shiftHeld' = shiftHeld \ {key}
    /\ shift_pressed' = FALSE
    /\ NoError
    /\ UNCHANGED <<layoutVars, platform, xoff, yoff, lastScroll, lastTarget,
                   themeVars, lifeVars>>

\* ------------------------------------------------ specification: scrolling

ScrollSides == {ViewSide, ContentSide}

InitScroll ==
    Unbuilt(VALID_ORIENTATIONS, {NW}, {<<DefaultFg, DefaultBg>>}, {"Light"},
            Platforms)

NextScroll ==
    \/ Construct
    \/ \E w2, h2 \in ScrollSides : FirstLayout(ViewSide, ViewSide, w2, h2)
    \/ OnCanvasConfigure
    \/ OnFrameConfigure
    \/ \E event \in WheelEvents : MouseWheelAll(event)
    \/ \E key \in ShiftKeys : KeyboardShiftPressAll(key)
    \/ \E key \in ShiftKeys : KeyboardShiftReleaseAll(key)

SpecScroll == InitScroll /\ [][NextScroll]_vars

\* C7: a handled wheel event scrolls one axis and leaves the other axis's
\* offset as it was: under "vertical" the horizontal offset never changes,
\* under "horizontal" the vertical offset never changes, and under "both"
\* the vertical offset does not change while a shift key is held and the
\* horizontal offset does not change while none is.
C7_WheelScrollsOneAxis ==
    [][/\ (xoff' = xoff \/ yoff' = yoff)
       /\ orientation = "vertical" => xoff' = xoff
       /\ orientation = "horizontal" => yoff' = yoff
       /\ (orientation = "both" /\ shiftHeld # {}) => yoff' = yoff
       /\ (orientation = "both" /\ shiftHeld = {}) => xoff' = xoff]_vars

\* The widgets that are this widget's canvas or have it on their master
\* chain.
OwnedByCanvas == {"canvas", "inner", "child"}

\* C11: a wheel event changes this widget's scroll offsets only if its target
\* is this widget's canvas or has that canvas on its master chain; for every
\* other target, a widget of another scrollable container included, both
\* offsets (and the scroll requests made of the canvas) stay as they were.
C11_ForeignWheelIgnored ==
    [][<<xoff, yoff, lastScroll>>' # <<xoff, yoff, lastScroll>> =>
          lastTarget' \in OwnedByCanvas]_vars

\* The wheel was turned over a widget of another scrollable container while
\* this widget's content overflowed, after this widget had been scrolled.
C11_Witness ==
    /\ phase = "Built"
    /\ lastTarget = "other_child"
    /\ ~FullyVisible(WheelAxis(orientation, shift_pressed))
    /\ lastScroll # <<>>
    /\ xoff + yoff > 0

\* delta / 6 truncated, for the deltas of WheelEvents.
SixthTruncated == (-120 :> -20) @@ (120 :> 20) @@ (-3 :> 0) @@ (1 :> 0)

\* The step the platform rule gives for an event, in units.
PlatformStep(p, event) ==
    CASE p = "win32" -> 0 - SixthTruncated[event.delta]
      [] p = "darwin" -> 0 - event.delta
      [] OTHER -> IF event.num = 4 THEN -2 ELSE 2

\* C12: a handled wheel event leaves the scroll offsets unchanged when the
\* targeted axis is fully visible (its view is (0.0, 1.0)); when it is not,
\* that axis's view is asked to scroll by the platform's step in units
\* (minus delta/6 truncated on Windows, minus delta on macOS, -2 for button
\* 4 and +2 otherwise elsewhere) and moves in the step's direction, the
\* other axis staying put.
C12_WheelStep ==
    [][lastTarget' \in OwnedByCanvas =>
        \A event \in {e \in WheelEvents : e.widget = lastTarget'} :
          MouseWheelAll(event) =>
              LET axis == WheelAxis(orientation, shift_pressed)
                  step == PlatformStep(platform, event)
                  off == IF axis = "x" THEN xoff ELSE yoff
                  offNext == IF axis = "x" THEN xoff' ELSE yoff'
              IN  IF FullyVisible(axis)
                  THEN UNCHANGED <<xoff, yoff, lastScroll>>
                  ELSE /\ lastScroll' = <<axis, step>>
                       /\ axis = "x" => yoff' = yoff
                       /\ axis = "y" => xoff' = xoff
                       /\ step > 0 => offNext >= off
                       /\ step < 0 => offNext <= off
                       /\ step = 0 => offNext = off]_vars

\* On Windows a small delta was truncated to a step of 0 units on the
\* horizontal axis, which had been scrolled before; the vertical axis, now
\* the targeted one, is fully visible.
C12_Witness ==
    /\ phase = "Built" /\ platform = "win32" /\ orientation = "both"
    /\ lastTarget \in OwnedByCanvas
    /\ lastScroll = <<"x", 0>>
    /\ xoff > 0 /\ yoff = 0
    /\ ~shift_pressed
    /\ FullyVisible("y") /\ ~FullyVisible("x")

\* C13: after any sequence of presses and releases of the left and right
\* shift keys, _shift_pressed is true exactly when at least one shift key is
\* held.
C13_ShiftStateTracksKeys ==
    phase = "Built" => (shift_pressed <=> shiftHeld # {})

=============================================================================
